---------------------------- MODULE Spec2Model ----------------------------
(***************************************************************************)
(* A model of the multidensity package: the skewed multivariate Student    *)
(* density SkStDM (skstdm.py) and the symmetric multivariate Student       *)
(* density MvSt (mvst.py).                                                  *)
(*                                                                         *)
(* Real numbers are exact rationals <<n, d>> (d > 0, lowest terms).  The    *)
(* linear algebra of pdf (const_mu, const_sigma, the solve, the quadratic  *)
(* form, the determinant) is computed exactly.  The transcendental factors *)
(* of the density (powers, gamma, exp, the Bessel function kv) are         *)
(* computed in the sign abstraction of IEEE arithmetic: a value is one of  *)
(* "nan", "neginf", "neg", "zero", "pos", "posinf".  Overflow and          *)
(* underflow of finite values are not modelled.                            *)
(*                                                                         *)
(* A numpy array is a record [nd, v]: nd is the number of axes (0 for a    *)
(* scalar, -1 for Python's None) and v holds the elements as a sequence of *)
(* rows.                                                                   *)
(***************************************************************************)
EXTENDS Integers, Sequences, FiniteSets, TLC

VARIABLES
    self,      \* the density instance of the sequential specification
    ret,       \* the last call on self: operation, argument, outcome
    inst,      \* the instances of the concurrent specification
    thr        \* the threads of the concurrent specification

vars == <<self, ret, inst, thr>>

---------------------------------------------------------------------------
(* Bounds of the model *)

MaxDim == 2

MaxT == 2

\* calls each thread of the concurrent specification makes
MaxCalls == 2

---------------------------------------------------------------------------
(* Exact rational arithmetic, standing for the floating-point operators *)

Abs(n) == IF n < 0 THEN -n ELSE n

RECURSIVE Gcd(_, _)
Gcd(a, b) == IF b = 0 THEN a ELSE Gcd(b, a % b)

R(n, d) ==
    LET s == IF d < 0 THEN -1 ELSE 1
        g == Gcd(Abs(n), Abs(d))
    IN  <<(s * n) \div g, (s * d) \div g>>

Z(n) == <<n, 1>>

RAdd(x, y) == R(x[1] * y[2] + y[1] * x[2], x[2] * y[2])

RSub(x, y) == R(x[1] * y[2] - y[1] * x[2], x[2] * y[2])

RMul(x, y) == R(x[1] * y[1], x[2] * y[2])

RDiv(x, y) == R(x[1] * y[2], x[2] * y[1])

RNeg(x) == <<-x[1], x[2]>>

RSign(x) == IF x[1] > 0 THEN 1 ELSE IF x[1] < 0 THEN -1 ELSE 0

RLess(x, y) == x[1] * y[2] < y[1] * x[2]

RECURSIVE RSum(_)
RSum(s) == IF s = <<>> THEN Z(0) ELSE RAdd(Head(s), RSum(Tail(s)))

---------------------------------------------------------------------------
(* numpy arrays *)

\* a function on 1..n as the tuple of its values
Tuple(f) == <<>> \o f

Arr(nd, v) == [nd |-> nd, v |-> v]

None == Arr(-1, <<>>)

Scalar(x) == Arr(0, <<<<x>>>>)

Vec(row) == Arr(1, <<row>>)

Mat(rows) == Arr(2, rows)

\* np.atleast_1d: a scalar becomes an array of one element
atleast_1d(a) == IF a.nd < 1 THEN Arr(1, a.v) ELSE a

\* np.atleast_2d: a scalar or a vector becomes a matrix of one row
atleast_2d(a) == IF a.nd < 2 THEN Arr(2, a.v) ELSE a

\* ndarray.size of a vector
size(a) == Len(a.v[1])

\* the rows and columns of a matrix
nrows(a) == Len(a.v)

ncols(a) == Len(a.v[1])

\* the value of a scalar or of an array of one element
item(a) == a.v[1][1]

\* numpy's == between an array and a number, reduced by all()
NpEq(a, x) == \A i \in 1..Len(a.v) : \A j \in 1..Len(a.v[i]) : a.v[i][j] = x

\* np.zeros(n) and np.eye(n)
zeros(n) == Vec(Tuple([i \in 1..n |-> Z(0)]))

eye(n) ==
    Tuple([i \in 1..n |-> Tuple([j \in 1..n |-> IF i = j THEN Z(1) ELSE Z(0)])])

---------------------------------------------------------------------------
(* Linear algebra: scipy.linalg.det and scipy.linalg.solve *)

Minor(M, c) ==
    Tuple([i \in 1..(Len(M) - 1) |->
        Tuple([j \in 1..(Len(M) - 1) |->
            M[i + 1][IF j < c THEN j ELSE j + 1]])])

RECURSIVE det(_)
det(M) ==
    IF Len(M) = 1 THEN M[1][1]
    ELSE RSum(Tuple([c \in 1..Len(M) |->
                RMul(IF c % 2 = 1 THEN M[1][c] ELSE RNeg(M[1][c]),
                     det(Minor(M, c)))]))

ReplaceCol(M, c, b) ==
    Tuple([i \in 1..Len(M) |->
        Tuple([j \in 1..Len(M) |-> IF j = c THEN b[i] ELSE M[i][j]])])

\* the solution x of M x = b, for a nonsingular M
solve(M, b) ==
    LET d == det(M)
    IN  Tuple([c \in 1..Len(M) |-> RDiv(det(ReplaceCol(M, c, b)), d)])

Dot(x, y) == RSum(Tuple([i \in 1..Len(x) |-> RMul(x[i], y[i])]))

\* the leading principal minor of order k
Leading(M, k) == Tuple([i \in 1..k |-> Tuple([j \in 1..k |-> M[i][j]])])

\* Sylvester's criterion for a symmetric matrix
PositiveDefinite(M) == \A k \in 1..Len(M) : RSign(det(Leading(M, k))) = 1

---------------------------------------------------------------------------
(* Floating-point values of the transcendental factors, by sign class *)

FClass == {"nan", "neginf", "neg", "zero", "pos", "posinf"}

FSign(a) == IF a \in {"pos", "posinf"} THEN 1
            ELSE IF a \in {"neg", "neginf"} THEN -1 ELSE 0

FInf(a) == a \in {"posinf", "neginf"}

\* IEEE multiplication: nan absorbs, 0 * inf = nan
FMul(a, b) ==
    IF a = "nan" \/ b = "nan" THEN "nan"
    ELSE IF (a = "zero" /\ FInf(b)) \/ (FInf(a) /\ b = "zero") THEN "nan"
    ELSE IF a = "zero" \/ b = "zero" THEN "zero"
    ELSE IF FInf(a) \/ FInf(b)
         THEN (IF FSign(a) * FSign(b) > 0 THEN "posinf" ELSE "neginf")
    ELSE IF FSign(a) * FSign(b) > 0 THEN "pos" ELSE "neg"

\* IEEE division: x / 0 = inf, inf / inf = nan, 0 / 0 = nan
FDiv(a, b) ==
    IF a = "nan" \/ b = "nan" THEN "nan"
    ELSE IF (FInf(a) /\ FInf(b)) \/ (a = "zero" /\ b = "zero") THEN "nan"
    ELSE IF FInf(b) \/ a = "zero" THEN "zero"
    ELSE IF b = "zero" THEN (IF FSign(a) > 0 THEN "posinf" ELSE "neginf")
    ELSE IF FInf(a)
         THEN (IF FSign(a) * FSign(b) > 0 THEN "posinf" ELSE "neginf")
    ELSE IF FSign(a) * FSign(b) > 0 THEN "pos" ELSE "neg"

\* x ** e for a float x and a float exponent e: a negative base has a real
\* power only for an integral exponent, otherwise the result is nan
Pow(x, e) ==
    IF RSign(x) > 0 \/ RSign(e) = 0 THEN "pos"
    ELSE IF RSign(x) = 0 THEN (IF RSign(e) > 0 THEN "zero" ELSE "posinf")
    ELSE IF e[2] # 1 THEN "nan"
    ELSE IF e[1] % 2 = 0 THEN "pos" ELSE "neg"

\* a class raised to a positive power
FPowPos(a) == IF a \in {"neg", "neginf"} THEN "nan" ELSE a

\* scipy.special.kv(nu, x) for nu > 0: positive for x > 0, inf at x = 0,
\* nan for x < 0 or x nan, 0 at x = inf
kv(x) ==
    IF x = "pos" THEN "pos"
    ELSE IF x = "zero" THEN "posinf"
    ELSE IF x = "posinf" THEN "zero"
    ELSE "nan"

\* whether a density value is a real number >= 0
IsDensity(a) == a \in {"zero", "pos"}

---------------------------------------------------------------------------
(* Program constants *)

\* SkStDM.bounds: bound_eta = [4]
SkBoundEta == 4

\* MvSt.bounds: [(2, None)]
MvBoundEta == 2

\* theta_start(self, ndim=2)
DefaultNdim == 2

\* theta_start: eta = np.array([10]) and MvSt's return 10
StartEta == 10

---------------------------------------------------------------------------
(* The methods of SkStDM and MvSt *)

\* MultiDensity.__init__(ndim, eta, lam, data): the base container keeps its
\* arguments as fields
MultiDensityInit(cls, ndim, eta, lam, data) ==
    [cls |-> cls, ndim |-> ndim, eta |-> eta, lam |-> lam, data |-> data,
     mu |-> None, sigma |-> None]

\* SkStDM.__init__
SkStDMInit(ndim, eta, lam, mu, sigma, data) ==
    [MultiDensityInit("SkStDM", ndim, eta, lam, data)
        EXCEPT !.mu = mu, !.sigma = sigma]

\* MvSt.__init__: lam = np.zeros(ndim)
MvStInit(ndim, eta, mu, sigma, data) ==
    [MultiDensityInit("MvSt", ndim, eta, zeros(ndim), data)
        EXCEPT !.mu = mu, !.sigma = sigma]

\* SkStDM.from_theta: theta is a list or a vector
\* variant: lam takes the whole of theta
SkFromThetaWhole(o, theta) ==
    [o EXCEPT !.eta = atleast_1d(Scalar(theta.v[1][1])),
              !.lam = atleast_1d(Vec(theta.v[1]))]

\* variant: eta is left as it was
SkFromThetaKeepEta(o, theta) ==
    [o EXCEPT !.lam = atleast_1d(Vec(Tail(theta.v[1])))]

\* self.eta = np.atleast_1d(theta[0])
SkSetEta(o, theta) == [o EXCEPT !.eta = atleast_1d(Scalar(theta.v[1][1]))]

\* self.lam = np.atleast_1d(theta[1:])
SkSetLam(o, theta) == [o EXCEPT !.lam = atleast_1d(Vec(Tail(theta.v[1])))]

SkFromTheta(o, theta) == SkSetLam(SkSetEta(o, theta), theta)

\* MvSt.from_theta: theta is a number
\* variant: theta is unpacked as SkStDM unpacks it
MvFromThetaLikeSk(o, theta) ==
    [o EXCEPT !.eta = atleast_1d(theta), !.lam = atleast_1d(theta)]

MvFromTheta(o, theta) == [o EXCEPT !.eta = theta]

from_theta(o, theta) ==
    IF o.cls = "MvSt" THEN MvFromTheta(o, theta) ELSE SkFromTheta(o, theta)

\* bounds(): a list of (low, high) pairs
\* variant: the pair of eta is left out
SkBoundsNoEta(o) == Tuple([i \in 1..o.ndim |-> <<None, None>>])

SkBounds(o) ==
    Tuple([i \in 1..(1 + o.ndim) |->
        <<IF i = 1 THEN Scalar(Z(SkBoundEta)) ELSE None, None>>])

MvBounds(o) == << <<Scalar(Z(MvBoundEta)), None>> >>

bounds(o) == IF o.cls = "MvSt" THEN MvBounds(o) ELSE SkBounds(o)

\* theta_start(ndim): the optimizer's starting point
SkThetaStart(o, ndim) == Vec(<<Z(StartEta)>> \o zeros(ndim).v[1])

MvThetaStart(o, ndim) == Scalar(Z(StartEta))

theta_start(o, ndim) ==
    IF o.cls = "MvSt" THEN MvThetaStart(o, ndim) ELSE SkThetaStart(o, ndim)

\* the number of free parameters of a starting point
NFree(theta) == IF theta.nd = 0 THEN 1 ELSE size(theta)

\* const_mu()
SkConstMu(o) ==
    IF o.mu = None
    THEN LET eta == item(o.eta)
             c == RDiv(eta, RSub(Z(2), eta))
         IN  Vec(Tuple([i \in 1..size(o.lam) |-> RMul(c, o.lam.v[1][i])]))
    ELSE o.mu

MvConstMu(o) == IF o.mu = None THEN zeros(o.ndim) ELSE o.mu

const_mu(o) == IF o.cls = "MvSt" THEN MvConstMu(o) ELSE SkConstMu(o)

\* const_sigma()
\* variant: the factor 2 of the outer product's coefficient is left out
SkConstSigmaNoTwo(o) ==
    IF o.sigma = None
    THEN LET ndim == size(o.lam)
             eta == item(o.eta)
             a == RSub(Z(1), RDiv(Z(2), eta))
             b == RDiv(RDiv(eta, RSub(eta, Z(2))), RSub(eta, Z(4)))
             lam == o.lam.v[1]
         IN  Mat(Tuple([i \in 1..ndim |-> Tuple([j \in 1..ndim |->
                    RSub(RMul(a, eye(ndim)[i][j]),
                         RMul(RMul(b, lam[j]), lam[i]))])]))
    ELSE o.sigma

SkConstSigma(o) ==
    IF o.sigma = None
    THEN LET ndim == size(o.lam)
             eta == item(o.eta)
             a == RSub(Z(1), RDiv(Z(2), eta))
             b == RDiv(RDiv(RMul(Z(2), eta), RSub(eta, Z(2))),
                       RSub(eta, Z(4)))
             lam == o.lam.v[1]
         IN  Mat(Tuple([i \in 1..ndim |-> Tuple([j \in 1..ndim |->
                    RSub(RMul(a, eye(ndim)[i][j]),
                         RMul(RMul(b, lam[j]), lam[i]))])]))
    ELSE o.sigma

MvConstSigma(o) ==
    IF o.sigma = None
    THEN LET a == RSub(Z(1), RDiv(Z(2), item(o.eta)))
         IN  Mat(Tuple([i \in 1..o.ndim |-> Tuple([j \in 1..o.ndim |->
                    RMul(a, eye(o.ndim)[i][j])])]))
    ELSE o.sigma

const_sigma(o) == IF o.cls = "MvSt" THEN MvConstSigma(o) ELSE SkConstSigma(o)

---------------------------------------------------------------------------
(* pdf(data) *)

\* the message of the ValueError of pdf, and the errors numpy and scipy raise
\* on operands whose shapes do not fit or on a singular matrix
NoData == "No data given!"

ShapeError == "shapes do not fit"

SingularError == "singular matrix"

Raise(msg) == [exc |-> msg, v |-> <<>>]

Return(v) == [exc |-> "", v |-> v]

\* diff = self.data - self.const_mu(), with numpy's broadcasting of the
\* (T, k) data against the (m,) mean
PdfDiff(o) ==
    LET d == o.data.v
        mu == const_mu(o).v[1]
        k == Len(d[1])
        m == Len(mu)
        w == IF k < m THEN m ELSE k
    IN  IF ~(k = m \/ k = 1 \/ m = 1) THEN Raise(ShapeError)
        ELSE Return(Tuple([t \in 1..Len(d) |-> Tuple([j \in 1..w |->
                RSub(d[t][IF k = 1 THEN 1 ELSE j],
                     mu[IF m = 1 THEN 1 ELSE j])])]))

\* the per-row factor (1 + diff_sandwich / eta) ** (-(eta + ndim) / 2)
term3(o, ndim, Q) ==
    LET eta == item(o.eta)
    IN  Pow(RAdd(Z(1), RDiv(Q, eta)),
            RDiv(RNeg(RAdd(eta, Z(ndim))), Z(2)))

\* MvSt.pdf after diff: term1 * term2 * term3
MvPdfValue(o, ndim, diff) ==
    LET sigma == const_sigma(o).v
    IN  IF Len(sigma) # Len(diff[1]) THEN Raise(ShapeError)
        ELSE IF RSign(det(sigma)) = 0 THEN Raise(SingularError)
        ELSE LET diff_norm ==
                     Tuple([t \in 1..Len(diff) |-> solve(sigma, diff[t])])
                 diff_sandwich ==
                     Tuple([t \in 1..Len(diff) |->
                         Dot(diff[t], diff_norm[t])])
                 \* (pi * eta) ** ndim is positive: the sign is det's
                 term1 == Pow(det(sigma), R(-1, 2))
                 term2 == "pos"
             IN  Return(Tuple([t \in 1..Len(diff) |->
                     FMul(FMul(term1, term2), term3(o, ndim, diff_sandwich[t]))]))

\* SkStDM.pdf after diff
SkPdfValue(o, ndim, diff) ==
    LET sigma == const_sigma(o).v
        lam == o.lam.v[1]
    IN  IF Len(sigma) # Len(diff[1]) THEN Raise(ShapeError)
        ELSE IF RSign(det(sigma)) = 0 THEN Raise(SingularError)
        ELSE IF Len(lam) # Len(sigma) THEN Raise(ShapeError)
        ELSE LET eta == item(o.eta)
                 diff_norm ==
                     Tuple([t \in 1..Len(diff) |-> solve(sigma, diff[t])])
                 diff_sandwich ==
                     Tuple([t \in 1..Len(diff) |->
                         Dot(diff[t], diff_norm[t])])
                 norm_lam == Dot(lam, solve(sigma, lam))
                 kappa == Tuple([t \in 1..Len(diff) |->
                     Pow(RMul(RAdd(eta, diff_sandwich[t]), norm_lam),
                         R(1, 2))])
                 \* (pi * eta) ** ndim is positive: the sign is det's
                 root == Pow(det(sigma), R(1, 2))
             IN  Return(Tuple([t \in 1..Len(diff) |->
                     FMul(FMul(FDiv(FMul(FMul(FDiv("pos", root),
                                              kv(kappa[t])),
                                         FPowPos(kappa[t])),
                                    "pos"),
                               "pos"),
                          term3(o, ndim, diff_sandwich[t]))]))

PdfValue(o, ndim, diff) ==
    IF o.cls = "MvSt" THEN MvPdfValue(o, ndim, diff)
    ELSE SkPdfValue(o, ndim, diff)

\* self.data = np.atleast_2d(data)
\* variant: the data is kept as given
PdfStoreRaw(o, data) == [o EXCEPT !.data = data]

PdfStore(o, data) == [o EXCEPT !.data = atleast_2d(data)]

\* the guard of pdf: if data is None: raise ValueError('No data given!')
PdfMissing(o, data) == data = None

\* the local ndim = self.lam.size
PdfNdim(o) == size(o.lam)

\* a whole pdf call: the instance after it and its outcome
pdf(o, data) ==
    IF PdfMissing(o, data) THEN [obj |-> o, res |-> Raise(NoData)]
    ELSE LET ndim == PdfNdim(o)
             o1 == PdfStore(o, data)
             diff == PdfDiff(o1)
         IN  [obj |-> o1,
              res |-> IF diff.exc # "" THEN diff
                      ELSE PdfValue(o1, ndim, diff.v)]

---------------------------------------------------------------------------
(* The caller's inputs *)

\* degrees of freedom the caller tries; an instance gets those above the
\* lower bound its bounds() gives the optimizer
EtaVals == {3, 6, 10}

Etas(cls) ==
    {e \in EtaVals : e > (IF cls = "MvSt" THEN MvBoundEta ELSE SkBoundEta)}

\* skewness components: 0, and the constructor's defaults .5 and 1.5
LamVals == {Z(0), R(1, 2), R(3, 2)}

\* skewness vectors of length n: c * ones(n), and the constructor's default
\* [.5, 1.5] (continued with 1.5)
LamRowsOf(n) ==
    {Tuple([j \in 1..n |-> c]) : c \in LamVals}
    \cup {Tuple([j \in 1..n |-> IF j = 1 THEN R(1, 2) ELSE R(3, 2)])}

LamRows == UNION {LamRowsOf(n) : n \in 1..MaxDim}

\* the arguments of from_theta: a vector [eta, lam...] for SkStDM, a number
\* for MvSt
SkThetaInputs == {Vec(<<Z(e)>> \o l) : e \in Etas("SkStDM"), l \in LamRows}

MvThetaInputs == {Scalar(Z(e)) : e \in Etas("MvSt")}

\* from_theta's default argument: [10., .5, 1.5] for SkStDM, 10. for MvSt
SkThetaDefault == Vec(<<Z(10), R(1, 2), R(3, 2)>>)

MvThetaDefault == Scalar(Z(10))

\* observations: a (k,) vector c * ones(k), or a (T, k) matrix whose rows
\* are ones(k), zeros(k), ones(k), ...
DataVals == {0, 1}

DataRow(k, c) == Tuple([j \in 1..k |-> Z(c)])

DataInputs ==
    UNION {{Vec(DataRow(k, c)) : c \in DataVals}
           \cup {Mat(Tuple([t \in 1..T |-> DataRow(k, t % 2)])) :
                    T \in 1..MaxT} :
           k \in 1..MaxDim}

\* the location and the scale a caller supplies: the vector of ones and the
\* symmetric positive-definite matrix with 2 on and 1 next to the diagonal
MuInput(n) == Vec(Tuple([j \in 1..n |-> Z(1)]))

SigmaInput(n) ==
    Mat(Tuple([i \in 1..n |-> Tuple([j \in 1..n |->
        IF i = j THEN Z(2) ELSE IF i - j \in {-1, 1} THEN Z(1) ELSE Z(0)])]))

\* mu and sigma are both left None or both supplied
MuSigmaInputs(n) == {<<None, None>>, <<MuInput(n), SigmaInput(n)>>}

\* the data a constructor is given: none, or one observation
CtorData(n) == {None, Vec(DataRow(n, 1))}

Instances ==
    UNION {
        {SkStDMInit(n, Scalar(Z(e)), Vec(l), ms[1], ms[2], d) :
            e \in Etas("SkStDM"), l \in LamRowsOf(n),
            ms \in MuSigmaInputs(n), d \in CtorData(n)}
        \cup
        {MvStInit(n, Scalar(Z(e)), ms[1], ms[2], d) :
            e \in Etas("MvSt"), ms \in MuSigmaInputs(n), d \in CtorData(n)} :
        n \in 1..MaxDim}

---------------------------------------------------------------------------
(* The sequential specification: one caller, one instance *)

Call(op, arg, res) == [op |-> op, arg |-> arg, res |-> res]

Idle == [t \in {} |-> 0]

Init ==
    /\ self \in Instances
    /\ ret = Call("__init__", None, Return(<<>>))
    /\ inst = Idle
    /\ thr = Idle

CallFromTheta ==
    \E theta \in IF self.cls = "MvSt"
                  THEN MvThetaInputs \cup {MvThetaDefault}
                  ELSE SkThetaInputs \cup {SkThetaDefault} :
        /\ self' = from_theta(self, theta)
        /\ ret' = Call("from_theta", theta, Return(<<>>))
        /\ UNCHANGED <<inst, thr>>

CallPdf ==
    \E data \in DataInputs \cup {None} :
        LET r == pdf(self, data)
        IN  /\ self' = r.obj
            /\ ret' = Call("pdf", data, r.res)
            /\ UNCHANGED <<inst, thr>>

CallBounds ==
    /\ ret' = Call("bounds", None, Return(bounds(self)))
    /\ UNCHANGED <<self, inst, thr>>

\* theta_start(ndim), and theta_start() with the default ndim
CallThetaStart ==
    \/ \E n \in 1..MaxDim :
        /\ ret' = Call("theta_start", Scalar(Z(n)),
                       Return(theta_start(self, n)))
        /\ UNCHANGED <<self, inst, thr>>
    \/ /\ ret' = Call("theta_start", None,
                      Return(theta_start(self, DefaultNdim)))
       /\ UNCHANGED <<self, inst, thr>>

CallConstMu ==
    /\ ret' = Call("const_mu", None, Return(const_mu(self)))
    /\ UNCHANGED <<self, inst, thr>>

CallConstSigma ==
    /\ ret' = Call("const_sigma", None, Return(const_sigma(self)))
    /\ UNCHANGED <<self, inst, thr>>

Next ==
    \/ CallFromTheta
    \/ CallPdf
    \/ CallBounds
    \/ CallThetaStart
    \/ CallConstMu
    \/ CallConstSigma

Spec == Init /\ [][Next]_vars

---------------------------------------------------------------------------
(* The concurrent specification: two threads call pdf and from_theta on     *)
(* SkStDM instances without a lock.  A thread runs a call statement by      *)
(* statement; between two statements the other thread may run.             *)

Threads == {1, 2}

Insts == {1, 2}

\* each instance as constructed: SkStDM(ndim=2, eta=6., lam=[1.5, 1.5])
ConcInstance ==
    SkStDMInit(2, Scalar(Z(6)), Vec(<<R(3, 2), R(3, 2)>>), None, None, None)

\* the arguments the threads pass
ConcThetaA == Vec(<<Z(10), R(3, 2), R(3, 2)>>)

ConcThetaB == Vec(<<Z(6), R(1, 2), R(1, 2)>>)

ConcThetas == {ConcThetaA, ConcThetaB}

ConcData == {d \in DataInputs : ncols(d) = 2 /\ d.v[1][1] = Z(1)}

\* a thread between two calls
IdleThread(i) ==
    [obj |-> i, pc |-> "idle", op |-> "", arg |-> None,
     start |-> ConcInstance, ndim |-> 0, diff |-> <<>>,
     res |-> Return(<<>>), calls |-> 0]

\* variant: the fields live on the first instance, whatever self is
TargetFirst(t) == 1

\* the instance that is self in thread t's calls
Target(t) == thr[t].obj

InitConc ==
    /\ self = ConcInstance
    /\ ret = Call("__init__", None, Return(<<>>))
    /\ inst = [i \in Insts |-> ConcInstance]
    /\ \E i \in Insts : thr = [t \in Threads |-> IdleThread(IF t = 1 THEN 1 ELSE i)]

\* pdf, lines 159-161: ndim = self.lam.size; if data is None: raise
PdfBegin(t) ==
    /\ thr[t].pc = "idle" /\ thr[t].calls < MaxCalls
    /\ \E data \in ConcData \cup {None} :
        thr' = [thr EXCEPT ![t] =
            [@ EXCEPT !.op = "pdf", !.arg = data,
                      !.start = inst[Target(t)],
                      !.calls = @ + 1,
                      !.ndim = IF PdfMissing(inst[Target(t)], data) THEN 0
                               ELSE PdfNdim(inst[Target(t)]),
                      !.diff = <<>>,
                      !.res = IF PdfMissing(inst[Target(t)], data)
                              THEN Raise(NoData) ELSE Return(<<>>),
                      !.pc = IF PdfMissing(inst[Target(t)], data)
                             THEN "idle" ELSE "store"]]
    /\ UNCHANGED <<self, ret, inst>>

\* pdf, line 162: self.data = np.atleast_2d(data)
PdfStoreStep(t) ==
    /\ thr[t].pc = "store"
    /\ inst' = [inst EXCEPT ![Target(t)] = PdfStore(@, thr[t].arg)]
    /\ thr' = [thr EXCEPT ![t].pc = "diff"]
    /\ UNCHANGED <<self, ret>>

\* pdf, line 164: diff = self.data - self.const_mu()
PdfDiffStep(t) ==
    /\ thr[t].pc = "diff"
    /\ LET d == PdfDiff(inst[Target(t)])
       IN  thr' = [thr EXCEPT ![t] =
               IF d.exc # ""
               THEN [@ EXCEPT !.res = d, !.pc = "idle", !.ndim = 0]
               ELSE [@ EXCEPT !.diff = d.v, !.pc = "value"]]
    /\ UNCHANGED <<self, ret, inst>>

\* pdf, lines 166-179: the solves and the returned product
PdfValueStep(t) ==
    /\ thr[t].pc = "value"
    /\ thr' = [thr EXCEPT ![t] =
            [@ EXCEPT !.res = PdfValue(inst[Target(t)], thr[t].ndim,
                                       thr[t].diff),
                      !.pc = "idle", !.ndim = 0, !.diff = <<>>]]
    /\ UNCHANGED <<self, ret, inst>>

\* from_theta, line 77: self.eta = np.atleast_1d(theta[0])
FromThetaBegin(t) ==
    /\ thr[t].pc = "idle" /\ thr[t].calls < MaxCalls
    /\ \E theta \in ConcThetas :
        /\ thr' = [thr EXCEPT ![t] =
                [@ EXCEPT !.op = "from_theta", !.arg = theta,
                          !.start = inst[Target(t)],
                          !.calls = @ + 1,
                          !.res = Return(<<>>), !.pc = "lam"]]
        /\ inst' = [inst EXCEPT ![Target(t)] = SkSetEta(@, theta)]
    /\ UNCHANGED <<self, ret>>

\* from_theta, line 78: self.lam = np.atleast_1d(theta[1:])
FromThetaLamStep(t) ==
    /\ thr[t].pc = "lam"
    /\ inst' = [inst EXCEPT ![Target(t)] = SkSetLam(@, thr[t].arg)]
    /\ thr' = [thr EXCEPT ![t].pc = "idle"]
    /\ UNCHANGED <<self, ret>>

NextConc ==
    \E t \in Threads :
        \/ PdfBegin(t)
        \/ PdfStoreStep(t)
        \/ PdfDiffStep(t)
        \/ PdfValueStep(t)
        \/ FromThetaBegin(t)
        \/ FromThetaLamStep(t)

SpecConc == InitConc /\ [][NextConc]_vars

---------------------------------------------------------------------------
(* Properties of the sequential specification *)

IsSk == self.cls = "SkStDM"

IsMv == self.cls = "MvSt"

\* the last call was op and returned
Returned(op) == ret.op = op /\ ret.res.exc = ""

\* the instance is inside the documented domain and the data of the last
\* pdf call has one column per dimension
WellShaped ==
    /\ size(self.lam) = self.ndim
    /\ ncols(atleast_2d(ret.arg)) = self.ndim

\* the MvSt instance with the eta, mu and sigma of self
Symmetric ==
    MvStInit(size(self.lam), Scalar(item(self.eta)), self.mu, self.sigma,
             None)

Finite(a) == a \in {"neg", "zero", "pos"}

\* lam . lam
LamSq(o) == Dot(o.lam.v[1], o.lam.v[1])

\* lam . lam < (eta - 2)^2 (eta - 4) / (2 eta^2)
LamInRegion(o) ==
    LET eta == item(o.eta)
    IN  RLess(LamSq(o),
              RDiv(RMul(RMul(RSub(eta, Z(2)), RSub(eta, Z(2))),
                        RSub(eta, Z(4))),
                   RMul(Z(2), RMul(eta, eta))))

\* C1: SkStDM.pdf with lam the zero vector returns the values of MvSt.pdf
\* with the same eta, mu, sigma and data, and they are finite numbers.
C1_SkewZeroEqualsSymmetric ==
    (IsSk /\ Returned("pdf") /\ NpEq(self.lam, Z(0)))
        => /\ ret.res = pdf(Symmetric, ret.arg).res
           /\ \A t \in 1..Len(ret.res.v) : Finite(ret.res.v[t])

\* C2: inside the documented domain a pdf call on T rows returns T values,
\* each a real number >= 0.
C2_PdfNonNegativePerRow ==
    (Returned("pdf") /\ WellShaped)
        => /\ Len(ret.res.v) = nrows(atleast_2d(ret.arg))
           /\ \A t \in 1..Len(ret.res.v) : IsDensity(ret.res.v[t])

\* C3 as claimed: a derived const_sigma() is positive-definite for every
\* valid eta and every lam.
C3_DerivedSigmaPositiveDefinite ==
    (Returned("const_sigma") /\ self.sigma = None)
        => PositiveDefinite(ret.res.v.v)

\* C3 as amended: a derived const_sigma() of MvSt is positive-definite; that
\* of SkStDM is positive-definite exactly when
\* lam . lam < (eta - 2)^2 (eta - 4) / (2 eta^2).
C3_DerivedSigmaPositiveDefiniteInRegion ==
    (Returned("const_sigma") /\ self.sigma = None)
        => (PositiveDefinite(ret.res.v.v) <=> (IsMv \/ LamInRegion(self)))

C3_Witness ==
    /\ IsSk /\ Returned("const_sigma") /\ self.sigma = None
    /\ self.ndim = 2 /\ ~NpEq(self.lam, Z(0))
    /\ PositiveDefinite(ret.res.v.v)

\* C4: pdf raises the missing-data error only when no data was ever
\* supplied, at construction or in a call.
C4_MissingDataOnlyWhenNeverSupplied ==
    (ret.op = "pdf" /\ ret.res.exc = NoData) => self.data = None

\* C5 as claimed: lam of a SkStDM instance has ndim elements.
C5_LamLengthIsNdim == IsSk => size(self.lam) = self.ndim

\* C5 as amended: after from_theta(theta) lam has len(theta) - 1 elements,
\* which is ndim exactly when theta has ndim + 1 elements; a derived
\* const_mu() and const_sigma() have the dimension of lam.
C5_LamLengthFollowsTheta ==
    IsSk =>
        /\ ret.op = "from_theta" =>
            /\ size(self.lam) = size(ret.arg) - 1
            /\ (size(self.lam) = self.ndim <=> size(ret.arg) = self.ndim + 1)
        /\ ret.op = "__init__" => size(self.lam) = self.ndim
        /\ self.mu = None => size(const_mu(self)) = size(self.lam)
        /\ self.sigma = None =>
            /\ nrows(const_sigma(self)) = size(self.lam)
            /\ ncols(const_sigma(self)) = size(self.lam)

C5_Witness ==
    /\ IsSk /\ ret.op = "from_theta" /\ self.ndim = 2
    /\ size(ret.arg) = 3 /\ size(self.lam) = 2 /\ self.eta.nd = 1

\* C6 as claimed: bounds() has as many pairs as theta_start has free
\* parameters, called with the instance's ndim or with no argument.
C6_BoundsMatchThetaStart ==
    (Returned("theta_start")
        /\ (ret.arg = None \/ ret.arg = Scalar(Z(self.ndim))))
        => NFree(ret.res.v) = Len(bounds(self))

\* C6 as amended: bounds() has as many pairs as theta_start(ndim) has free
\* parameters when ndim is the instance's: 1 for MvSt, ndim + 1 for SkStDM,
\* the pair of eta first; theta_start() without its argument returns 3
\* elements for SkStDM.
C6_BoundsMatchThetaStartOfNdim ==
    /\ (Returned("theta_start") /\ ret.arg = Scalar(Z(self.ndim)))
        => /\ NFree(ret.res.v) = Len(bounds(self))
           /\ NFree(ret.res.v) = IF IsMv THEN 1 ELSE self.ndim + 1
    /\ (Returned("theta_start") /\ ret.arg = None)
        => NFree(ret.res.v) = IF IsMv THEN 1 ELSE DefaultNdim + 1
    /\ Returned("bounds") =>
        /\ Len(ret.res.v) = IF IsMv THEN 1 ELSE self.ndim + 1
        /\ ret.res.v[1] =
            <<Scalar(Z(IF IsMv THEN MvBoundEta ELSE SkBoundEta)), None>>
        /\ \A i \in 2..Len(ret.res.v) : ret.res.v[i] = <<None, None>>

C6_Witness ==
    /\ IsSk /\ Returned("theta_start") /\ ret.arg = Scalar(Z(self.ndim))
    /\ self.eta.nd = 1 /\ self.ndim = 1
    /\ NFree(ret.res.v) = 2

\* C7: after from_theta the fields read back the argument: eta is theta[0]
\* and lam is theta[1:] for SkStDM, eta is theta for MvSt, whatever the
\* earlier calls were.
C7_FromThetaRoundTrip ==
    ret.op = "from_theta" =>
        IF IsMv THEN self.eta = ret.arg
        ELSE /\ NpEq(self.eta, ret.arg.v[1][1])
             /\ self.lam.v[1] = Tail(ret.arg.v[1])

C7_Witness ==
    /\ IsSk /\ ret.op = "from_theta"
    /\ item(self.eta) = Z(6) /\ self.lam = Vec(<<R(1, 2), R(3, 2)>>)

\* C8: a pdf call changes no field but data; a call that returns leaves
\* data the argument as a 2-D matrix; a call without data raises and
\* changes nothing.
C8_PdfFrame ==
    [][ret'.op = "pdf" =>
        /\ self' = [self EXCEPT !.data = self'.data]
        /\ ret'.res.exc = "" => self'.data = atleast_2d(ret'.arg)
        /\ ret'.arg = None => (ret'.res.exc = NoData /\ self' = self)]_vars

C8_Witness ==
    /\ Returned("pdf") /\ ret.arg.nd = 1 /\ self.data.nd = 2
    /\ IsSk /\ self.eta.nd = 1 /\ self.mu # None

\* C10: lam of a MvSt instance stays the zero vector of length ndim, and a
\* derived const_mu() has length ndim and const_sigma() is ndim x ndim.
C10_MvStLamStaysZero ==
    IsMv =>
        /\ self.lam = zeros(self.ndim)
        /\ self.mu = None => size(const_mu(self)) = self.ndim
        /\ self.sigma = None =>
            /\ nrows(const_sigma(self)) = self.ndim
            /\ ncols(const_sigma(self)) = self.ndim

C10_Witness ==
    /\ IsMv /\ Returned("pdf") /\ self.ndim = 2
    /\ item(self.eta) = Z(3) /\ self.mu = None

---------------------------------------------------------------------------
(* Properties of the concurrent specification *)

\* the outcome of thread t's last call had it run alone from the state of
\* its instance when the call began
Alone(t) ==
    IF thr[t].op = "pdf" THEN pdf(thr[t].start, thr[t].arg)
    ELSE [obj |-> from_theta(thr[t].start, thr[t].arg),
          res |-> Return(<<>>)]

Shared == thr[1].obj = thr[2].obj

\* C9: when the two threads use distinct instances, every call returns what
\* it returns run alone and leaves its own instance as it does run alone,
\* whatever the other thread does; an instance no call has begun on is as
\* constructed.  (On a shared instance the witness is reached: a pdf call
\* returns values computed from the other thread's data and from eta of one
\* from_theta and lam of another.)
C9_DistinctInstancesDoNotInterfere ==
    ~Shared =>
        \A t \in Threads :
            /\ thr[t].op = "" => inst[thr[t].obj] = ConcInstance
            /\ (thr[t].op # "" /\ thr[t].pc = "idle") =>
                /\ thr[t].res = Alone(t).res
                /\ inst[thr[t].obj] = Alone(t).obj

\* on a shared instance both from_theta calls and both pdf calls have run:
\* the instance holds eta of one from_theta and lam of the other, and
\* thread 1's pdf of one row returned one value per row of thread 2's data,
\* positive, which neither theta gives
C9_Witness ==
    /\ Shared
    /\ \A t \in Threads : thr[t].pc = "idle" /\ thr[t].op = "pdf"
    /\ item(inst[1].eta) = Z(10) /\ inst[1].lam = Vec(<<R(1, 2), R(1, 2)>>)
    /\ nrows(atleast_2d(thr[1].arg)) = 1
    /\ thr[1].res.exc = "" /\ Len(thr[1].res.v) = 2
    /\ thr[1].res.v[1] = "pos"
    /\ thr[1].res # Alone(1).res

=============================================================================
